---- MODULE Spec2Model ----
(***************************************************************************)
(* Functional-Data-Processing-Pipeline: the cafe-sales cleaning pipeline   *)
(* in its two variants (functional.py, imperative.py + common.py).         *)
(*                                                                         *)
(* Text is a sequence of one-character strings, numbers are exact          *)
(* rationals [num, den] in lowest terms (binary rounding error of Python   *)
(* floats is not represented; round() ties go to the even neighbour).      *)
(* The characters of the model are the digits, ".", "-", " " and letters   *)
(* that mean nothing to int()/float() (no "e", "_", "inf", "nan").         *)
(***************************************************************************)
EXTENDS Integers, Sequences, FiniteSets, TLC

\* ------------------------------------------------------------------ bounds
MaxRows == 3
MaxLen == 3

\* --------------------------------------------------------------- constants
DECIMAL_PLACES == 2

\* ----------------------------------------------------------------- numbers
Abs(n) == IF n < 0 THEN -n ELSE n

RECURSIVE GCD(_, _)
GCD(a, b) == IF b = 0 THEN a ELSE GCD(b, a % b)

RECURSIVE Pow10(_)
Pow10(k) == IF k = 0 THEN 1 ELSE 10 * Pow10(k - 1)

\* the rational n/d (d > 0) in lowest terms
Rat(n, d) ==
    LET g == GCD(Abs(n), d)
    IN  [num |-> n \div g, den |-> d \div g]

IntNum(n) == [num |-> n, den |-> 1]
Zero == IntNum(0)

\* sums over the least common denominator, products cancelled crosswise, so
\* that no intermediate value is larger than it has to be
Add(a, b) ==
    LET g == GCD(a.den, b.den)
    IN  Rat(a.num * (b.den \div g) + b.num * (a.den \div g), (a.den \div g) * b.den)
Neg(a) == [num |-> -a.num, den |-> a.den]
Sub(a, b) == Add(a, Neg(b))
Mul(a, b) ==
    LET g1 == GCD(Abs(a.num), b.den)
        g2 == GCD(Abs(b.num), a.den)
    IN  Rat((a.num \div g1) * (b.num \div g2), (a.den \div g2) * (b.den \div g1))
DivInt(a, n) == Rat(a.num, a.den * n)
Leq(a, b) == a.num * b.den <= b.num * a.den
IsInteger(a) == a.den = 1

\* round(x, ndigits) without the rounding: the digits beyond are cut off
RoundTruncating(x, ndigits) ==
    LET scaled == x.num * Pow10(ndigits)
        q == scaled \div x.den
    IN  Rat(q, Pow10(ndigits))

\* round(x, ndigits): nearest multiple of 10^-ndigits, ties to even
Round(x, ndigits) ==
    LET scaled == x.num * Pow10(ndigits)
        q == scaled \div x.den
        r == scaled % x.den
        up == \/ 2 * r > x.den
              \/ 2 * r = x.den /\ q % 2 = 1
    IN  Rat(IF up THEN q + 1 ELSE q, Pow10(ndigits))

\* -------------------------------------------------------------------- text
ERROR == <<"E", "R", "R", "O", "R">>
UNKNOWN == <<"U", "N", "K", "N", "O", "W", "N">>
EMPTY == << >>
Sentinels == {ERROR, UNKNOWN, EMPTY}

DigitChars == <<"0", "1", "2", "3", "4", "5", "6", "7", "8", "9">>
IsDigit(c) == \E i \in 1..10 : DigitChars[i] = c
DigitVal(c) == (CHOOSE i \in 1..10 : DigitChars[i] = c) - 1
AllDigits(t) == \A i \in 1..Len(t) : IsDigit(t[i])

RECURSIVE DigitsVal(_)
DigitsVal(t) ==
    IF Len(t) = 0 THEN 0
    ELSE 10 * DigitsVal(SubSeq(t, 1, Len(t) - 1)) + DigitVal(t[Len(t)])

\* str.strip() as int() and float() apply it to their argument
RECURSIVE Strip(_)
Strip(t) ==
    IF Len(t) > 0 /\ t[1] = " " THEN Strip(Tail(t))
    ELSE IF Len(t) > 0 /\ t[Len(t)] = " " THEN Strip(SubSeq(t, 1, Len(t) - 1))
    ELSE t

HasSign(t) == Len(t) > 0 /\ t[1] \in {"-", "+"}
Unsigned(t) == IF HasSign(t) THEN Tail(t) ELSE t
SignOf(t) == IF Len(t) > 0 /\ t[1] = "-" THEN -1 ELSE 1

\* int(value): does the text convert, and to what
IntConverts(value) ==
    LET body == Unsigned(Strip(value))
    IN  Len(body) > 0 /\ AllDigits(body)

IntOf(value) ==
    LET s == Strip(value)
    IN  IntNum(SignOf(s) * DigitsVal(Unsigned(s)))

\* float(value): digits with at most one ".", at least one digit
DotPositions(t) == {i \in 1..Len(t) : t[i] = "."}
WithoutDot(t) == SelectSeq(t, LAMBDA c : c # ".")

FloatConverts(value) ==
    LET body == Unsigned(Strip(value))
    IN  /\ Cardinality(DotPositions(body)) <= 1
        /\ Len(WithoutDot(body)) > 0
        /\ AllDigits(WithoutDot(body))

FloatOf(value) ==
    LET s == Strip(value)
        body == Unsigned(s)
        dots == DotPositions(body)
        frac == IF dots = {} THEN 0 ELSE Len(body) - (CHOOSE i \in dots : TRUE)
    IN  Rat(SignOf(s) * DigitsVal(WithoutDot(body)), Pow10(frac))

\* datetime.strptime(value, '%Y-%m-%d')
IsLeap(y) == (y % 4 = 0 /\ y % 100 # 0) \/ y % 400 = 0

DaysInMonth(y, m) ==
    IF m = 2 THEN (IF IsLeap(y) THEN 29 ELSE 28)
    ELSE IF m \in {4, 6, 9, 11} THEN 30 ELSE 31

\* %m is 1[0-2]|0[1-9]|[1-9]
MonthField(t) == Len(t) \in 1..2 /\ AllDigits(t) /\ DigitsVal(t) \in 1..12

\* %d is 3[0-1]|[1-2]\d|0[1-9]|[1-9]| [1-9]
DayField(t) ==
    \/ Len(t) \in 1..2 /\ AllDigits(t) /\ DigitsVal(t) \in 1..31
    \/ Len(t) = 2 /\ t[1] = " " /\ IsDigit(t[2]) /\ t[2] # "0"

DayVal(t) == IF t[1] = " " THEN DigitVal(t[2]) ELSE DigitsVal(t)

DateConverts(value) ==
    /\ Len(value) \in 8..10
    /\ AllDigits(SubSeq(value, 1, 4))
    /\ value[5] = "-"
    /\ \E k \in 7..8 :
          /\ value[k] = "-"
          /\ MonthField(SubSeq(value, 6, k - 1))
          /\ DayField(SubSeq(value, k + 1, Len(value)))
          /\ DigitsVal(SubSeq(value, 1, 4)) >= 1
          /\ DayVal(SubSeq(value, k + 1, Len(value)))
                <= DaysInMonth(DigitsVal(SubSeq(value, 1, 4)),
                               DigitsVal(SubSeq(value, 6, k - 1)))

\* ----------------------------------------------------------------- results
\* what a call yields: a value, or the exception that leaves it
Ok(v) == [err |-> "", val |-> v]
Raise(e, v) == [err |-> e, val |-> v]

\* ---------------------------------------------- field parsers of common.py
common_parse_float(value, default) ==
    IF value \in {ERROR, UNKNOWN, EMPTY}
    THEN Ok(Round(default, DECIMAL_PLACES))
    ELSE IF FloatConverts(value)
         THEN Ok(Round(FloatOf(value), DECIMAL_PLACES))
         ELSE Raise("ValueError", Zero)

common_parse_int(value, default) ==
    IF value \in {ERROR, UNKNOWN, EMPTY}
    THEN Ok(default)
    ELSE IF IntConverts(value)
         THEN Ok(IntOf(value))
         ELSE Raise("ValueError", Zero)

\* parse_date that returns the text without validating it
common_parse_date_unvalidated(value, default) ==
    IF value \in {ERROR, UNKNOWN, EMPTY}
    THEN Ok(default)
    ELSE Ok(value)

common_parse_date(value, default) ==
    IF value \in {ERROR, UNKNOWN, EMPTY}
    THEN Ok(default)
    ELSE IF DateConverts(value)
         THEN Ok(value)
         ELSE Raise("ValueError", EMPTY)

\* parse_string that never substitutes the default
common_parse_string_unfilled(value, default) == Ok(value)

common_parse_string(value, default) ==
    IF value \in {ERROR, UNKNOWN, EMPTY}
    THEN Ok(default)
    ELSE Ok(value)

\* ------------------------------------------ field parsers of functional.py
parse_float(value, default) ==
    CASE value = ERROR \/ value = UNKNOWN \/ value = EMPTY ->
            Ok(Round(default, DECIMAL_PLACES))
      [] OTHER ->
            IF FloatConverts(value)
            THEN Ok(Round(FloatOf(value), DECIMAL_PLACES))
            ELSE Raise("ValueError", Zero)

parse_int(value, default) ==
    CASE value = ERROR \/ value = UNKNOWN \/ value = EMPTY -> Ok(default)
      [] OTHER ->
            IF IntConverts(value)
            THEN Ok(IntOf(value))
            ELSE Raise("ValueError", Zero)

parse_date(value, default) ==
    CASE value = ERROR \/ value = UNKNOWN \/ value = EMPTY -> Ok(default)
      [] OTHER ->
            IF DateConverts(value)
            THEN Ok(value)
            ELSE Raise("ValueError", EMPTY)

parse_string(value, default) ==
    CASE value = ERROR \/ value = UNKNOWN \/ value = EMPTY -> Ok(default)
      [] OTHER -> Ok(value)

\* ------------------------------------------------------------ cafe texts
Coffee == <<"C", "o", "f", "f", "e", "e">>
Tea == <<"T", "e", "a">>
Cash == <<"C", "a", "s", "h">>
Card == <<"C", "a", "r", "d">>
NYC == <<"N", "Y", "C">>
LA == <<"L", "A">>
EpochDate == <<"1", "9", "7", "0", "-", "0", "1", "-", "0", "1">>

Columns == {"Item", "Quantity", "Price Per Unit", "Total Spent",
            "Payment Method", "Location", "Transaction Date"}

\* --------------------------------------------- the statistics module calls
RECURSIVE Insert(_, _)
Insert(x, sorted) ==
    IF Len(sorted) = 0 THEN <<x>>
    ELSE IF Leq(x, sorted[1]) THEN <<x>> \o sorted
    ELSE <<sorted[1]>> \o Insert(x, Tail(sorted))

RECURSIVE Sorted(_)
Sorted(values) ==
    IF Len(values) = 0 THEN << >>
    ELSE Insert(values[1], Sorted(Tail(values)))

RECURSIVE Sum(_)
Sum(values) ==
    IF Len(values) = 0 THEN Zero ELSE Add(values[1], Sum(Tail(values)))

\* statistics.median: middle value, or the mean of the two middle values
median(values) ==
    LET s == Sorted(values)
        n == Len(values)
    IN  IF n = 0 THEN Raise("StatisticsError", Zero)
        ELSE IF n % 2 = 1 THEN Ok(s[(n \div 2) + 1])
        ELSE Ok(DivInt(Add(s[n \div 2], s[(n \div 2) + 1]), 2))

\* statistics.mean
mean(values) ==
    IF Len(values) < 1 THEN Raise("StatisticsError", Zero)
    ELSE Ok(DivInt(Sum(values), Len(values)))

\* statistics.variance: sample variance, needs two data points
variance(values) ==
    LET n == Len(values)
        m == DivInt(Sum(values), n)
        sq == [i \in 1..n |-> Mul(Sub(values[i], m), Sub(values[i], m))]
    IN  IF n < 2 THEN Raise("StatisticsError", Zero)
        ELSE Ok(DivInt(Sum(sq), n - 1))

\* statistics.mode: the first encountered of the most frequent values
Count(values, v) == Cardinality({i \in 1..Len(values) : values[i] = v})

mode(values) ==
    IF Len(values) = 0 THEN Raise("StatisticsError", EMPTY)
    ELSE LET best == CHOOSE i \in 1..Len(values) :
                        /\ \A j \in 1..Len(values) :
                              Count(values, values[j]) <= Count(values, values[i])
                        /\ \A j \in 1..(i - 1) :
                              Count(values, values[j]) < Count(values, values[i])
         IN  Ok(values[best])

\* ------------------------------------------- functional.py: the estimator
RECURSIVE get_column(_, _, _)
get_column(data, column_name, accumulator) ==
    IF Len(data) = 0 THEN accumulator
    ELSE CASE data[1][column_name] = ERROR
              \/ data[1][column_name] = UNKNOWN
              \/ data[1][column_name] = EMPTY ->
                   get_column(Tail(data), column_name, accumulator)
           [] OTHER ->
                   get_column(Tail(data), column_name,
                              Append(accumulator, data[1][column_name]))

Defults(q, p, i, pm, l, d) ==
    [defult_quantity_median |-> q,
     defult_price_per_unit_mean |-> p,
     defult_item_mode |-> i,
     defult_payment_method_mode |-> pm,
     defult_location_mode |-> l,
     defult_transaction_date_mode |-> d]

NoDefults == Defults(Zero, Zero, EMPTY, EMPTY, EMPTY, EMPTY)

\* main(), "Compute Defults": the statements run in order, the first
\* exception leaves main
functional_defults(raw_data) ==
    LET list_quantity_defaults == get_column(raw_data, "Quantity", << >>)
        \* list(map(...)): the values, unless a parse raises
        quantity_values_defaults ==
            [i \in 1..Len(list_quantity_defaults) |->
                parse_int(list_quantity_defaults[i], Zero).val]
        quantity_map_raises ==
            \E i \in 1..Len(list_quantity_defaults) :
                parse_int(list_quantity_defaults[i], Zero).err # ""
        quantity_median_defaults == median(quantity_values_defaults)
        list_price_per_unit_defaults == get_column(raw_data, "Price Per Unit", << >>)
        price_per_unit_values_defaults ==
            [i \in 1..Len(list_price_per_unit_defaults) |->
                parse_float(list_price_per_unit_defaults[i], Zero).val]
        price_per_unit_map_raises ==
            \E i \in 1..Len(list_price_per_unit_defaults) :
                parse_float(list_price_per_unit_defaults[i], Zero).err # ""
        price_per_unit_mean_defaults == mean(price_per_unit_values_defaults)
        item_mode_defaults == mode(get_column(raw_data, "Item", << >>))
        payment_method_mode_defaults == mode(get_column(raw_data, "Payment Method", << >>))
        location_mode_defaults == mode(get_column(raw_data, "Location", << >>))
        transaction_date_mode_defaults == mode(get_column(raw_data, "Transaction Date", << >>))
    IN  IF quantity_map_raises
            THEN Raise("ValueError", NoDefults)
        ELSE IF quantity_median_defaults.err # ""
            THEN Raise(quantity_median_defaults.err, NoDefults)
        ELSE IF price_per_unit_map_raises
            THEN Raise("ValueError", NoDefults)
        ELSE IF price_per_unit_mean_defaults.err # ""
            THEN Raise(price_per_unit_mean_defaults.err, NoDefults)
        ELSE IF item_mode_defaults.err # ""
            THEN Raise(item_mode_defaults.err, NoDefults)
        ELSE IF payment_method_mode_defaults.err # ""
            THEN Raise(payment_method_mode_defaults.err, NoDefults)
        ELSE IF location_mode_defaults.err # ""
            THEN Raise(location_mode_defaults.err, NoDefults)
        ELSE IF transaction_date_mode_defaults.err # ""
            THEN Raise(transaction_date_mode_defaults.err, NoDefults)
        ELSE Ok(Defults(quantity_median_defaults.val,
                        price_per_unit_mean_defaults.val,
                        item_mode_defaults.val,
                        payment_method_mode_defaults.val,
                        location_mode_defaults.val,
                        transaction_date_mode_defaults.val))

\* ------------------------------------------- imperative.py: the estimator
\* the collecting loop of compute_column_stats, one list per column
NotDirty(data, column_name) ==
    SelectSeq([i \in 1..Len(data) |-> data[i][column_name]],
              LAMBDA v : v \notin {ERROR, UNKNOWN, EMPTY})

quantities(data) ==
    LET kept == SelectSeq(NotDirty(data, "Quantity"), IntConverts)
    IN  [i \in 1..Len(kept) |-> IntOf(kept[i])]

prices_per_unit(data) ==
    LET kept == SelectSeq(NotDirty(data, "Price Per Unit"), FloatConverts)
    IN  [i \in 1..Len(kept) |-> FloatOf(kept[i])]

compute_column_stats(data) ==
    LET items == NotDirty(data, "Item")
        payment_methods == NotDirty(data, "Payment Method")
        locations == NotDirty(data, "Location")
        transaction_dates == NotDirty(data, "Transaction Date")
    IN  Defults(
          IF Len(quantities(data)) > 0 THEN median(quantities(data)).val ELSE Zero,
          IF Len(prices_per_unit(data)) > 0 THEN mean(prices_per_unit(data)).val ELSE Zero,
          IF Len(items) > 0 THEN mode(items).val ELSE UNKNOWN,
          IF Len(payment_methods) > 0 THEN mode(payment_methods).val ELSE UNKNOWN,
          IF Len(locations) > 0 THEN mode(locations).val ELSE UNKNOWN,
          IF Len(transaction_dates) > 0 THEN mode(transaction_dates).val ELSE EpochDate)

\* ------------------------------------------------------- the row cleaners
CleanedColumns == Columns \cup {"Corrected Total"}

NoRow == [c \in CleanedColumns |-> EMPTY]

\* the corrected total with + in place of *
corrected_total_added(quantity, price_per_unit) ==
    Round(Add(quantity, price_per_unit), DECIMAL_PLACES)

\* functional.py clean_row: quantity * price_per_unit, rounded in the row
corrected_total(quantity, price_per_unit) ==
    Round(Mul(quantity, price_per_unit), DECIMAL_PLACES)

\* imperative.py clean_data_imperative: the same two statements
imperative_corrected_total(quantity, price_per_unit) ==
    Round(Mul(quantity, price_per_unit), DECIMAL_PLACES)

\* functional.py clean_row: a ValueError of any parser leaves the function
clean_row(row, defults_) ==
    LET q == parse_int(row["Quantity"], defults_.defult_quantity_median)
        p == parse_float(row["Price Per Unit"], defults_.defult_price_per_unit_mean)
        quantity == q.val
        price_per_unit == p.val
        item == parse_string(row["Item"], defults_.defult_item_mode)
        total == parse_float(row["Total Spent"], Zero)
        payment == parse_string(row["Payment Method"], defults_.defult_payment_method_mode)
        location == parse_string(row["Location"], defults_.defult_location_mode)
        date == parse_date(row["Transaction Date"], defults_.defult_transaction_date_mode)
    IN  IF q.err # "" \/ p.err # "" \/ total.err # "" \/ date.err # ""
        THEN Raise("ValueError", NoRow)
        ELSE Ok([c \in DOMAIN row \cup {"Corrected Total"} |->
                    CASE c = "Item" -> item.val
                      [] c = "Quantity" -> quantity
                      [] c = "Price Per Unit" -> price_per_unit
                      [] c = "Total Spent" -> total.val
                      [] c = "Payment Method" -> payment.val
                      [] c = "Location" -> location.val
                      [] c = "Transaction Date" -> date.val
                      [] c = "Corrected Total" ->
                            corrected_total(quantity, price_per_unit)
                      [] OTHER -> row[c]])

\* imperative.py clean_data_imperative: the body of the loop, for one row
cleaned_row(row, defults_) ==
    LET q == common_parse_int(row["Quantity"], defults_.defult_quantity_median)
        p == common_parse_float(row["Price Per Unit"], defults_.defult_price_per_unit_mean)
        quantity == q.val
        price_per_unit == p.val
        item == common_parse_string(row["Item"], defults_.defult_item_mode)
        total == common_parse_float(row["Total Spent"], Zero)
        payment == common_parse_string(row["Payment Method"], defults_.defult_payment_method_mode)
        location == common_parse_string(row["Location"], defults_.defult_location_mode)
        date == common_parse_date(row["Transaction Date"], defults_.defult_transaction_date_mode)
    IN  IF q.err # "" \/ p.err # "" \/ total.err # "" \/ date.err # ""
        THEN Raise("ValueError", NoRow)
        ELSE Ok([c \in DOMAIN row \cup {"Corrected Total"} |->
                    CASE c = "Item" -> item.val
                      [] c = "Quantity" -> quantity
                      [] c = "Price Per Unit" -> price_per_unit
                      [] c = "Total Spent" -> total.val
                      [] c = "Payment Method" -> payment.val
                      [] c = "Location" -> location.val
                      [] c = "Transaction Date" -> date.val
                      [] c = "Corrected Total" ->
                            imperative_corrected_total(quantity, price_per_unit)
                      [] OTHER -> row[c]])

\* --------------------------------------------------------- the aggregators
\* functional.py: filter on Item, get_column, reduce from 0.0.  The values of
\* a numeric column are numbers, which no case of get_column's match drops.
get_aggregate_by_coloumn_for_item(data, item_name, column_name) ==
    LET final_item_list == SelectSeq(data, LAMBDA row : row["Item"] = item_name)
        corected_totals_item ==
            [i \in 1..Len(final_item_list) |-> final_item_list[i][column_name]]
    IN  Sum(corected_totals_item)

\* imperative.py: the accumulator loop
RECURSIVE get_aggregate_total_spent(_, _, _)
get_aggregate_total_spent(data, item_name, column_name) ==
    IF Len(data) = 0 THEN Zero
    ELSE LET total == get_aggregate_total_spent(
                          SubSeq(data, 1, Len(data) - 1), item_name, column_name)
             row == data[Len(data)]
         IN  IF row["Item"] = item_name THEN Add(total, row[column_name]) ELSE total

\* ------------------------------------------------------------ the reports
Line(tag, num, text) == [tag |-> tag, num |-> num, text |-> text]

ColumnValues(data, column_name) == [i \in 1..Len(data) |-> data[i][column_name]]

\* functional.py print_numeric_analysis (common.py has the same body): the
\* lines printed, and the exception that leaves the function if any
print_numeric_analysis(final_data, column_name) ==
    LET values == ColumnValues(final_data, column_name)
        header == <<Line("Analysis", Zero, EMPTY)>>
    IN  IF mean(values).err # ""
            THEN Raise(mean(values).err, header)
        ELSE IF variance(values).err # ""
            THEN Raise(variance(values).err,
                       header \o <<Line("Mean", Round(mean(values).val, 2), EMPTY),
                                   Line("Median", Round(median(values).val, 2), EMPTY)>>)
        ELSE Ok(header \o <<Line("Mean", Round(mean(values).val, 2), EMPTY),
                            Line("Median", Round(median(values).val, 2), EMPTY),
                            Line("Variance", Round(variance(values).val, 2), EMPTY)>>)

\* functional.py print_categorical_analysis (common.py has the same body)
print_categorical_analysis(final_data, column_name) ==
    LET values == ColumnValues(final_data, column_name)
        header == <<Line("Trend", Zero, EMPTY)>>
    IN  IF mode(values).err = "StatisticsError"
        THEN Ok(header \o <<Line("Multiple found", Zero, EMPTY)>>)
        ELSE Ok(header \o <<Line("Mode", Zero, mode(values).val)>>)

\* imperative.py print_numeric_analysis_imperative
print_numeric_analysis_imperative(data, column_name) ==
    LET values == ColumnValues(data, column_name)
        header == <<Line("Analysis", Zero, EMPTY)>>
    IN  IF Len(values) = 0
            THEN Ok(header \o <<Line("No valid numeric data found.", Zero, EMPTY)>>)
        ELSE IF variance(values).err # ""
            THEN Raise(variance(values).err,
                       header \o <<Line("Mean", Round(mean(values).val, 2), EMPTY),
                                   Line("Median", Round(median(values).val, 2), EMPTY)>>)
        ELSE Ok(header \o <<Line("Mean", Round(mean(values).val, 2), EMPTY),
                            Line("Median", Round(median(values).val, 2), EMPTY),
                            Line("Variance", Round(variance(values).val, 2), EMPTY)>>)

\* imperative.py print_categorical_analysis_imperative
print_categorical_analysis_imperative(data, column_name) ==
    LET values == ColumnValues(data, column_name)
        header == <<Line("Trend", Zero, EMPTY)>>
    IN  IF Len(values) = 0
            THEN Ok(header \o <<Line("No data found", Zero, EMPTY)>>)
        ELSE IF mode(values).err = "StatisticsError"
            THEN Ok(header \o <<Line("Multiple found", Zero, EMPTY)>>)
        ELSE Ok(header \o <<Line("Mode", Zero, mode(values).val)>>)

\* the order in which both mains run the eight reports
NumericReports == <<"Quantity", "Price Per Unit", "Total Spent", "Corrected Total">>
CategoricalReports == <<"Item", "Location", "Payment Method", "Transaction Date">>

\* ------------------------------------------------------------- input files
Row(item, quantity, price, total, payment, location, date) ==
    [c \in Columns |->
        CASE c = "Item" -> item
          [] c = "Quantity" -> quantity
          [] c = "Price Per Unit" -> price
          [] c = "Total Spent" -> total
          [] c = "Payment Method" -> payment
          [] c = "Location" -> location
          [] c = "Transaction Date" -> date]

May1 == <<"2", "0", "2", "3", "-", "0", "5", "-", "0", "1">>
May2 == <<"2", "0", "2", "3", "-", "0", "5", "-", "0", "2">>
BadDate == <<"2", "0", "2", "3", "-", "1", "3", "-", "4", "5">>

SampleRows ==
    { Row(Coffee, <<"2">>, <<"3", ".", "5", "0">>, ERROR, Cash, NYC, May1),
      Row(Tea, <<"3">>, <<"0", ".", "0", "0", "4">>, <<"1", ".", "5">>, Card, LA, May2),
      Row(UNKNOWN, ERROR, EMPTY, UNKNOWN, ERROR, EMPTY, UNKNOWN),
      Row(Coffee, UNKNOWN, <<"0", ".", "0", "1">>, <<"0", ".", "0", "1", "5">>, ERROR, NYC, May1),
      Row(Tea, <<"4">>, ERROR, <<"7">>, Cash, UNKNOWN, EMPTY),
      Row(EMPTY, <<" ", "6">>, <<"0", ".", "0", "0", "4">>, EMPTY, Card, LA, May2),
      Row(Tea, <<"2", "x">>, <<"3", ".", "5", "0">>, <<"7">>, Cash, LA, May2),
      Row(Coffee, <<"4">>, <<"1", ".", "5", ".", "0">>, <<"7", ",", "0">>, Card, NYC, May1),
      Row(Coffee, <<"4">>, <<"0", ".", "0", "1">>, EMPTY, Card, EMPTY, BadDate) }

InputFiles == UNION {[1..n -> SampleRows] : n \in 0..MaxRows}

\* ----------------------------------------------------- texts for the parsers
Alphabet == {"1", "5", ".", "-", " ", "x"}

ParserTexts ==
    UNION {[1..n -> Alphabet] : n \in 0..MaxLen}
    \cup {ERROR, UNKNOWN, May1, BadDate, Coffee,
          <<"0", ".", "0", "0", "6">>, <<"0", ".", "0", "0", "4">>,
          <<"0", ".", "0", "1", "5">>, <<"3", ".", "5", "0">>,
          <<"2", "0", "2", "3", "-", "0", "2", "-", "3", "0">>,
          <<"2", "0", "2", "4", "-", "0", "2", "-", "2", "9">>,
          <<"2", "0", "2", "3", "-", "5", "-", "1">>,
          <<"2", "0", "2", "3", "-", "0", "5", "-", "0", "1", " ">>,
          <<"2", "3", "-", "0", "5", "-", "0", "1">>}

NumberDefaults == {Zero, IntNum(4), Rat(5, 2), Rat(1, 3), Rat(1, 200)}
TextDefaults == {UNKNOWN, Coffee, EpochDate}

\* a parser call: the default is a number for parse_int and parse_float, a
\* text for parse_date and parse_string
Call(module, fn, value, number, text) ==
    [module |-> module, fn |-> fn, value |-> value, number |-> number, text |-> text]

NoCall == Call("", "", EMPTY, Zero, EMPTY)
NoRet == Ok(EMPTY)

\* ---------------------------------------------------------------- the state
VARIABLES
    variant,            \* which main runs: "functional" or "imperative"
    input_file,         \* the rows of INPUT_FILE
    raw_data,           \* main: raw_data
    defults,            \* main: defults
    idx,                \* rows consumed by the cleaning loop / map
    cleaned_rows,       \* the list being built by the cleaning loop / map
    cleaned_data,       \* main: cleaned_data / full_cleaned_data
    total_spent_coffee, \* main: total_spent_coffee
    rep,                \* how many of the eight reports have returned
    console,            \* the lines printed by the reports and save_to_csv
    output_file,        \* the rows of OUTPUT_FILE; "written" says it exists
    pc,                 \* where main is
    error,              \* the exception that ended main, "" if none
    call,               \* a parser call under test
    ret                 \* what that call yielded

vars == <<variant, input_file, raw_data, defults, idx, cleaned_rows, cleaned_data,
          total_spent_coffee, rep, console, output_file, pc, error, call, ret>>

NoFile == [written |-> FALSE, rows |-> << >>]

Init ==
    /\ variant \in {"functional", "imperative"}
    /\ input_file \in InputFiles
    /\ raw_data = << >>
    /\ defults = NoDefults
    /\ idx = 0
    /\ cleaned_rows = << >>
    /\ cleaned_data = << >>
    /\ total_spent_coffee = Zero
    /\ rep = 0
    /\ console = << >>
    /\ output_file = NoFile
    /\ pc = "read"
    /\ error = ""
    /\ call = NoCall
    /\ ret = NoRet

\* ---------------------------------------------------- functional.py main()
\* an exception nothing catches ends main where it is: pc stays, error is set
Abort(e) == error' = e /\ UNCHANGED pc
At(v, p) == variant = v /\ pc = p /\ error = ""

\* raw_data = read_csv(INPUT_FILE)
Main_ReadCsv ==
    /\ At("functional", "read")
    /\ raw_data' = input_file
    /\ pc' = "defaults"
    /\ UNCHANGED <<variant, input_file, defults, idx, cleaned_rows, cleaned_data,
                   total_spent_coffee, rep, console, output_file, error, call, ret>>

\* "Compute Defults"
Main_ComputeDefults ==
    /\ At("functional", "defaults")
    /\ LET r == functional_defults(raw_data)
       IN  IF r.err # ""
           THEN Abort(r.err) /\ UNCHANGED defults
           ELSE defults' = r.val /\ pc' = "clean" /\ UNCHANGED error
    /\ UNCHANGED <<variant, input_file, raw_data, idx, cleaned_rows, cleaned_data,
                   total_spent_coffee, rep, console, output_file, call, ret>>

\* list(map(lambda row: clean_row(row, defults), raw_data)): the next row
Main_CleanRow ==
    /\ At("functional", "clean") /\ idx < Len(raw_data)
    /\ LET r == clean_row(raw_data[idx + 1], defults)
       IN  IF r.err # ""
           THEN Abort(r.err) /\ UNCHANGED <<idx, cleaned_rows>>
           ELSE /\ cleaned_rows' = Append(cleaned_rows, r.val)
                /\ idx' = idx + 1
                /\ UNCHANGED <<pc, error>>
    /\ UNCHANGED <<variant, input_file, raw_data, defults, cleaned_data,
                   total_spent_coffee, rep, console, output_file, call, ret>>

\* the map is exhausted: full_cleaned_data is bound
Main_CleanReturn ==
    /\ At("functional", "clean") /\ idx = Len(raw_data)
    /\ cleaned_data' = cleaned_rows
    /\ pc' = "aggregate"
    /\ UNCHANGED <<variant, input_file, raw_data, defults, idx, cleaned_rows,
                   total_spent_coffee, rep, console, output_file, error, call, ret>>

\* total_spent_coffee, printed as it is
Main_Aggregate ==
    /\ At("functional", "aggregate")
    /\ total_spent_coffee' =
          get_aggregate_by_coloumn_for_item(cleaned_data, Coffee, "Corrected Total")
    /\ console' = Append(console, Line("total", total_spent_coffee', EMPTY))
    /\ pc' = "report"
    /\ UNCHANGED <<variant, input_file, raw_data, defults, idx, cleaned_rows,
                   cleaned_data, rep, output_file, error, call, ret>>

\* the four print_numeric_analysis calls, in order
Main_NumericReport ==
    /\ At("functional", "report") /\ rep < 4
    /\ LET r == print_numeric_analysis(cleaned_data, NumericReports[rep + 1])
       IN  /\ console' = console \o r.val
           /\ IF r.err # ""
              THEN Abort(r.err) /\ UNCHANGED rep
              ELSE rep' = rep + 1 /\ UNCHANGED <<pc, error>>
    /\ UNCHANGED <<variant, input_file, raw_data, defults, idx, cleaned_rows,
                   cleaned_data, total_spent_coffee, output_file, call, ret>>

\* the four print_categorical_analysis calls, in order
Main_CategoricalReport ==
    /\ At("functional", "report") /\ rep >= 4
    /\ LET r == print_categorical_analysis(cleaned_data, CategoricalReports[rep - 3])
       IN  /\ console' = console \o r.val
           /\ rep' = rep + 1
           /\ pc' = IF rep' = 8 THEN "save" ELSE "report"
    /\ UNCHANGED <<variant, input_file, raw_data, defults, idx, cleaned_rows,
                   cleaned_data, total_spent_coffee, output_file, error, call, ret>>

\* save_to_csv(file_path, data): nothing for no data; a failure to open the
\* file or to write it is printed, not raised
save_to_csv(data) ==
    IF Len(data) = 0
    THEN UNCHANGED <<output_file, console>>
    ELSE \/ /\ output_file' = [written |-> TRUE, rows |-> data]
            /\ UNCHANGED console
         \/ /\ console' = Append(console, Line("[ERROR] Could not save", Zero, EMPTY))
            /\ UNCHANGED output_file
         \/ \E k \in 0..Len(data) :
               /\ output_file' = [written |-> TRUE, rows |-> SubSeq(data, 1, k)]
               /\ console' = Append(console, Line("[ERROR] An unexpected error occurred", Zero, EMPTY))

Main_Save ==
    /\ At("functional", "save")
    /\ save_to_csv(cleaned_data)
    /\ pc' = "done"
    /\ UNCHANGED <<variant, input_file, raw_data, defults, idx, cleaned_rows,
                   cleaned_data, total_spent_coffee, rep, error, call, ret>>

\* ----------------------------------------- imperative.py main_imperative()
\* raw_data = read_csv(INPUT_FILE); if not raw_data: return
MainImperative_ReadCsv ==
    /\ At("imperative", "read")
    /\ raw_data' = input_file
    /\ pc' = IF Len(input_file) = 0 THEN "done" ELSE "defaults"
    /\ UNCHANGED <<variant, input_file, defults, idx, cleaned_rows, cleaned_data,
                   total_spent_coffee, rep, console, output_file, error, call, ret>>

\* defults = compute_column_stats(raw_data)
MainImperative_ComputeColumnStats ==
    /\ At("imperative", "defaults")
    /\ defults' = compute_column_stats(raw_data)
    /\ pc' = "clean"
    /\ UNCHANGED <<variant, input_file, raw_data, idx, cleaned_rows, cleaned_data,
                   total_spent_coffee, rep, console, output_file, error, call, ret>>

\* the loop inserting each cleaned row at the front of the list
MainImperative_CleanRow_Prepending ==
    /\ At("imperative", "clean") /\ idx < Len(raw_data)
    /\ LET r == cleaned_row(raw_data[idx + 1], defults)
       IN  IF r.err # ""
           THEN Abort(r.err) /\ UNCHANGED <<idx, cleaned_rows>>
           ELSE /\ cleaned_rows' = <<r.val>> \o cleaned_rows
                /\ idx' = idx + 1
                /\ UNCHANGED <<pc, error>>
    /\ UNCHANGED <<variant, input_file, raw_data, defults, cleaned_data,
                   total_spent_coffee, rep, console, output_file, call, ret>>

\* clean_data_imperative: one turn of the loop
MainImperative_CleanRow ==
    /\ At("imperative", "clean") /\ idx < Len(raw_data)
    /\ LET r == cleaned_row(raw_data[idx + 1], defults)
       IN  IF r.err # ""
           THEN Abort(r.err) /\ UNCHANGED <<idx, cleaned_rows>>
           ELSE /\ cleaned_rows' = Append(cleaned_rows, r.val)
                /\ idx' = idx + 1
                /\ UNCHANGED <<pc, error>>
    /\ UNCHANGED <<variant, input_file, raw_data, defults, cleaned_data,
                   total_spent_coffee, rep, console, output_file, call, ret>>

\* clean_data_imperative: return cleaned_data
MainImperative_CleanReturn ==
    /\ At("imperative", "clean") /\ idx = Len(raw_data)
    /\ cleaned_data' = cleaned_rows
    /\ pc' = "aggregate"
    /\ UNCHANGED <<variant, input_file, raw_data, defults, idx, cleaned_rows,
                   total_spent_coffee, rep, console, output_file, error, call, ret>>

\* total_spent_coffee, printed with two decimals
MainImperative_Aggregate ==
    /\ At("imperative", "aggregate")
    /\ total_spent_coffee' =
          get_aggregate_total_spent(cleaned_data, Coffee, "Corrected Total")
    /\ console' = Append(console, Line("total", Round(total_spent_coffee', 2), EMPTY))
    /\ pc' = "report"
    /\ UNCHANGED <<variant, input_file, raw_data, defults, idx, cleaned_rows,
                   cleaned_data, rep, output_file, error, call, ret>>

MainImperative_NumericReport ==
    /\ At("imperative", "report") /\ rep < 4
    /\ LET r == print_numeric_analysis_imperative(cleaned_data, NumericReports[rep + 1])
       IN  /\ console' = console \o r.val
           /\ IF r.err # ""
              THEN Abort(r.err) /\ UNCHANGED rep
              ELSE rep' = rep + 1 /\ UNCHANGED <<pc, error>>
    /\ UNCHANGED <<variant, input_file, raw_data, defults, idx, cleaned_rows,
                   cleaned_data, total_spent_coffee, output_file, call, ret>>

MainImperative_CategoricalReport ==
    /\ At("imperative", "report") /\ rep >= 4
    /\ LET r == print_categorical_analysis_imperative(cleaned_data, CategoricalReports[rep - 3])
       IN  /\ console' = console \o r.val
           /\ rep' = rep + 1
           /\ pc' = IF rep' = 8 THEN "save" ELSE "report"
    /\ UNCHANGED <<variant, input_file, raw_data, defults, idx, cleaned_rows,
                   cleaned_data, total_spent_coffee, output_file, error, call, ret>>

MainImperative_Save ==
    /\ At("imperative", "save")
    /\ save_to_csv(cleaned_data)
    /\ pc' = "done"
    /\ UNCHANGED <<variant, input_file, raw_data, defults, idx, cleaned_rows,
                   cleaned_data, total_spent_coffee, rep, error, call, ret>>

Next ==
    \/ Main_ReadCsv
    \/ Main_ComputeDefults
    \/ Main_CleanRow
    \/ Main_CleanReturn
    \/ Main_Aggregate
    \/ Main_NumericReport
    \/ Main_CategoricalReport
    \/ Main_Save
    \/ MainImperative_ReadCsv
    \/ MainImperative_ComputeColumnStats
    \/ MainImperative_CleanRow
    \/ MainImperative_CleanReturn
    \/ MainImperative_Aggregate
    \/ MainImperative_NumericReport
    \/ MainImperative_CategoricalReport
    \/ MainImperative_Save

Spec == Init /\ [][Next]_vars

\* ------------------------------------------ the field parsers, on their own
Modules == {"common", "functional"}

Calls ==
    {Call(m, fn, v, d, EMPTY) : m \in Modules, fn \in {"parse_int", "parse_float"},
                                v \in ParserTexts, d \in NumberDefaults}
    \cup {Call(m, fn, v, Zero, d) : m \in Modules, fn \in {"parse_date", "parse_string"},
                                    v \in ParserTexts, d \in TextDefaults}

InitParse ==
    /\ variant = "none"
    /\ input_file = << >>
    /\ raw_data = << >>
    /\ defults = NoDefults
    /\ idx = 0
    /\ cleaned_rows = << >>
    /\ cleaned_data = << >>
    /\ total_spent_coffee = Zero
    /\ rep = 0
    /\ console = << >>
    /\ output_file = NoFile
    /\ pc = "call"
    /\ error = ""
    /\ call \in Calls
    /\ ret = NoRet

Call_parse_int ==
    /\ pc = "call" /\ call.fn = "parse_int"
    /\ ret' = IF call.module = "common"
              THEN common_parse_int(call.value, call.number)
              ELSE parse_int(call.value, call.number)
    /\ pc' = "returned"
    /\ UNCHANGED <<variant, input_file, raw_data, defults, idx, cleaned_rows,
                   cleaned_data, total_spent_coffee, rep, console, output_file,
                   error, call>>

Call_parse_float ==
    /\ pc = "call" /\ call.fn = "parse_float"
    /\ ret' = IF call.module = "common"
              THEN common_parse_float(call.value, call.number)
              ELSE parse_float(call.value, call.number)
    /\ pc' = "returned"
    /\ UNCHANGED <<variant, input_file, raw_data, defults, idx, cleaned_rows,
                   cleaned_data, total_spent_coffee, rep, console, output_file,
                   error, call>>

Call_parse_date ==
    /\ pc = "call" /\ call.fn = "parse_date"
    /\ ret' = IF call.module = "common"
              THEN common_parse_date(call.value, call.text)
              ELSE parse_date(call.value, call.text)
    /\ pc' = "returned"
    /\ UNCHANGED <<variant, input_file, raw_data, defults, idx, cleaned_rows,
                   cleaned_data, total_spent_coffee, rep, console, output_file,
                   error, call>>

Call_parse_string ==
    /\ pc = "call" /\ call.fn = "parse_string"
    /\ ret' = IF call.module = "common"
              THEN common_parse_string(call.value, call.text)
              ELSE parse_string(call.value, call.text)
    /\ pc' = "returned"
    /\ UNCHANGED <<variant, input_file, raw_data, defults, idx, cleaned_rows,
                   cleaned_data, total_spent_coffee, rep, console, output_file,
                   error, call>>

NextParse == Call_parse_int \/ Call_parse_float \/ Call_parse_date \/ Call_parse_string

SpecParse == InitParse /\ [][NextParse]_vars

\* ================================================================== claims
\* vocabulary of the claims, stated without the parsers' own helpers
IsSentinel(t) == t = ERROR \/ t = UNKNOWN \/ t = EMPTY

Digits == {"0", "1", "2", "3", "4", "5", "6", "7", "8", "9"}
DigitValue ==
    [c \in Digits |->
        CASE c = "0" -> 0 [] c = "1" -> 1 [] c = "2" -> 2 [] c = "3" -> 3
          [] c = "4" -> 4 [] c = "5" -> 5 [] c = "6" -> 6 [] c = "7" -> 7
          [] c = "8" -> 8 [] c = "9" -> 9]

\* the number written by the digits t[from..to], by place value
RECURSIVE PlaceValue(_, _, _)
PlaceValue(t, from, to) ==
    IF from > to THEN 0
    ELSE DigitValue[t[from]] * Pow10(to - from) + PlaceValue(t, from + 1, to)

DigitRun(t, from, to) == from <= to /\ \A i \in from..to : t[i] \in Digits

\* "-12", "7": an optional minus sign and digits
IsIntegerText(t) ==
    \/ DigitRun(t, 1, Len(t))
    \/ Len(t) > 1 /\ t[1] = "-" /\ DigitRun(t, 2, Len(t))

IntegerTextValue(t) ==
    IF t[1] = "-" THEN -PlaceValue(t, 2, Len(t)) ELSE PlaceValue(t, 1, Len(t))

\* "3.50", "0.004", "15": digits, optionally "." and more digits
IsDecimalText(t) ==
    \/ DigitRun(t, 1, Len(t))
    \/ \E k \in 2..(Len(t) - 1) :
          t[k] = "." /\ DigitRun(t, 1, k - 1) /\ DigitRun(t, k + 1, Len(t))

\* numerator and denominator of the decimal text
DecimalTextNum(t) ==
    IF DigitRun(t, 1, Len(t)) THEN PlaceValue(t, 1, Len(t))
    ELSE LET k == CHOOSE k \in 2..(Len(t) - 1) : t[k] = "."
         IN  PlaceValue(t, 1, k - 1) * Pow10(Len(t) - k) + PlaceValue(t, k + 1, Len(t))

DecimalTextDen(t) ==
    IF DigitRun(t, 1, Len(t)) THEN 1
    ELSE Pow10(Len(t) - (CHOOSE k \in 2..(Len(t) - 1) : t[k] = "."))

\* r is n/d rounded to 2 decimal places: a whole number of hundredths, no
\* farther than half a hundredth from n/d
IsRoundedTo2(r, n, d) ==
    /\ 100 % r.den = 0
    /\ 200 * Abs(r.num * d - n * r.den) <= r.den * d

\* YYYY-MM-DD with a month of the year and a day of that month
MonthLengths == <<31, 28, 31, 30, 31, 30, 31, 31, 30, 31, 30, 31>>

IsValidDateText(t) ==
    /\ Len(t) = 10
    /\ DigitRun(t, 1, 4) /\ t[5] = "-" /\ DigitRun(t, 6, 7) /\ t[8] = "-"
    /\ DigitRun(t, 9, 10)
    /\ PlaceValue(t, 1, 4) >= 1
    /\ PlaceValue(t, 6, 7) \in 1..12
    /\ PlaceValue(t, 9, 10) >= 1
    /\ LET y == PlaceValue(t, 1, 4)
           m == PlaceValue(t, 6, 7)
           leapDay == IF m = 2 /\ y % 4 = 0 /\ (y % 100 # 0 \/ y % 400 = 0)
                      THEN 1 ELSE 0
       IN  PlaceValue(t, 9, 10) <= MonthLengths[m] + leapDay

\* C1: every field parser of common.py and functional.py returns the default
\* for a sentinel text (parse_float: the default rounded to 2 places) without
\* raising; parse_int returns the integer a non-sentinel integer text writes;
\* parse_float returns the value of a non-sentinel decimal text rounded to 2
\* places; parse_string returns a non-sentinel text unchanged; parse_date
\* returns a non-sentinel valid date text unchanged.
C1_ParsersContract ==
    pc = "returned" =>
        /\ IsSentinel(call.value) =>
              /\ ret.err = ""
              /\ call.fn = "parse_float" =>
                    IsRoundedTo2(ret.val, call.number.num, call.number.den)
              /\ call.fn = "parse_int" => ret.val = call.number
              /\ call.fn \in {"parse_date", "parse_string"} => ret.val = call.text
        /\ (~IsSentinel(call.value) /\ call.fn = "parse_int"
                /\ IsIntegerText(call.value)) =>
              /\ ret.err = ""
              /\ ret.val = [num |-> IntegerTextValue(call.value), den |-> 1]
        /\ (~IsSentinel(call.value) /\ call.fn = "parse_float"
                /\ IsDecimalText(call.value)) =>
              /\ ret.err = ""
              /\ IsRoundedTo2(ret.val, DecimalTextNum(call.value),
                                       DecimalTextDen(call.value))
        /\ (~IsSentinel(call.value) /\ call.fn = "parse_string") =>
              ret.err = "" /\ ret.val = call.value
        /\ (~IsSentinel(call.value) /\ call.fn = "parse_date"
                /\ IsValidDateText(call.value)) =>
              ret.err = "" /\ ret.val = call.value

\* a decimal text with three decimals came back rounded to two
C1_Witness ==
    /\ pc = "returned"
    /\ call.fn = "parse_float"
    /\ call.module = "functional"
    /\ call.value = <<"0", ".", "0", "0", "6">>
    /\ ret = [err |-> "", val |-> [num |-> 1, den |-> 100]]

\* --------------------------------------------------- claims about the runs
CleanedSoFar == 1..Len(cleaned_rows)
Cleaned == pc \in {"aggregate", "report", "save", "done"} /\ Len(raw_data) > 0

\* C2: every cleaned row of either variant has Corrected Total equal to
\* Quantity x Price Per Unit of that same cleaned row, rounded to 2 places;
\* rows with the same Quantity and Price Per Unit have the same Corrected
\* Total whatever their Total Spent.
C2_CorrectedTotal ==
    /\ \A i \in CleanedSoFar :
          LET q == cleaned_rows[i]["Quantity"]
              p == cleaned_rows[i]["Price Per Unit"]
          IN  IsRoundedTo2(cleaned_rows[i]["Corrected Total"],
                           q.num * p.num, q.den * p.den)
    /\ \A i, j \in CleanedSoFar :
          (/\ cleaned_rows[i]["Quantity"] = cleaned_rows[j]["Quantity"]
           /\ cleaned_rows[i]["Price Per Unit"] = cleaned_rows[j]["Price Per Unit"])
          => cleaned_rows[i]["Corrected Total"] = cleaned_rows[j]["Corrected Total"]
    /\ Cleaned => cleaned_data = cleaned_rows

\* a finished run holds a row whose Quantity was imputed, whose Corrected
\* Total is not zero and differs from its Total Spent
C2_Witness ==
    /\ pc = "done" /\ error = ""
    /\ \E i \in 1..Len(cleaned_data) :
          /\ IsSentinel(raw_data[i]["Quantity"])
          /\ cleaned_data[i]["Corrected Total"] # Zero
          /\ cleaned_data[i]["Corrected Total"] # cleaned_data[i]["Total Spent"]

\* C3: for a non-empty raw sequence whose cleaning completes, the cleaned
\* sequence is as long as the raw one and its i-th row comes from the i-th raw
\* row: it carries that row's non-sentinel texts and integer quantity, equal
\* raw rows give equal cleaned rows, and the loop has cleaned exactly the rows
\* it has consumed, in both variants.
DerivedFrom(raw, row) ==
    /\ \A c \in {"Item", "Payment Method", "Location", "Transaction Date"} :
          ~IsSentinel(raw[c]) => row[c] = raw[c]
    /\ IsIntegerText(raw["Quantity"]) =>
          row["Quantity"] = [num |-> IntegerTextValue(raw["Quantity"]), den |-> 1]

C3_RowsOneToOne ==
    /\ Len(cleaned_rows) = idx
    /\ idx <= Len(raw_data)
    /\ \A i \in CleanedSoFar : DerivedFrom(raw_data[i], cleaned_rows[i])
    /\ \A i, j \in CleanedSoFar :
          raw_data[i] = raw_data[j] => cleaned_rows[i] = cleaned_rows[j]
    /\ Cleaned =>
          /\ Len(cleaned_data) = Len(raw_data)
          /\ \A i \in 1..Len(raw_data) : DerivedFrom(raw_data[i], cleaned_data[i])

\* the imperative run finished with at least two different rows
C3_Witness ==
    /\ variant = "imperative" /\ pc = "done" /\ error = ""
    /\ Len(cleaned_data) >= 2
    /\ raw_data[1]["Item"] # raw_data[2]["Item"]
    /\ cleaned_data[1]["Item"] # cleaned_data[2]["Item"]

\* C4: when a raw row holds a non-sentinel value that does not convert to its
\* type, the run never gets past the cleaning: the cleaning loop does not
\* finish, no cleaned row set is bound or reported, nothing is printed by
\* the reports and the output file is never written; the exception that ends
\* the imperative run, and any raised by the row cleaner, is the conversion
\* error (ValueError).
Unconvertible(row) ==
    \/ ~IsSentinel(row["Quantity"]) /\ ~IntConverts(row["Quantity"])
    \/ ~IsSentinel(row["Price Per Unit"]) /\ ~FloatConverts(row["Price Per Unit"])
    \/ ~IsSentinel(row["Total Spent"]) /\ ~FloatConverts(row["Total Spent"])
    \/ ~IsSentinel(row["Transaction Date"]) /\ ~DateConverts(row["Transaction Date"])

HasUnconvertible(data) == \E i \in 1..Len(data) : Unconvertible(data[i])

C4_ConversionErrorAborts ==
    HasUnconvertible(input_file) =>
        /\ pc \in {"read", "defaults", "clean"}
        /\ pc = "clean" => idx < Len(raw_data)
        /\ \A i \in 1..idx : ~Unconvertible(raw_data[i])
        /\ cleaned_data = << >>
        /\ console = << >>
        /\ output_file = NoFile
        /\ (error # "" /\ (variant = "imperative" \/ pc = "clean")) =>
              error = "ValueError"

\* the imperative run had cleaned a row when the invalid date ended it
C4_Witness ==
    /\ variant = "imperative" /\ pc = "clean" /\ error = "ValueError"
    /\ idx >= 1
    /\ raw_data[idx + 1]["Transaction Date"] = BadDate
    /\ output_file = NoFile

\* C5: when an imputable column of a non-empty raw dataset holds only
\* sentinels, the default estimation of either variant does not fail and
\* yields the fallback of that column: 0, 0.0, "UNKNOWN" or "1970-01-01".
AllSentinel(data, c) == \A i \in 1..Len(data) : IsSentinel(data[i][c])
EstimatorFailed == pc = "defaults" /\ error # ""
EstimatorDone == pc \in {"clean", "aggregate", "report", "save", "done"} /\ Len(raw_data) > 0

C5_FallbackDefaults ==
    /\ (Len(raw_data) > 0 /\ \E c \in Columns \ {"Total Spent"} : AllSentinel(raw_data, c))
          => ~EstimatorFailed
    /\ EstimatorDone =>
          /\ AllSentinel(raw_data, "Quantity") => defults.defult_quantity_median = Zero
          /\ AllSentinel(raw_data, "Price Per Unit") => defults.defult_price_per_unit_mean = Zero
          /\ AllSentinel(raw_data, "Item") => defults.defult_item_mode = UNKNOWN
          /\ AllSentinel(raw_data, "Payment Method") => defults.defult_payment_method_mode = UNKNOWN
          /\ AllSentinel(raw_data, "Location") => defults.defult_location_mode = UNKNOWN
          /\ AllSentinel(raw_data, "Transaction Date") =>
                defults.defult_transaction_date_mode = EpochDate

\* C6: the default estimation of either variant never raises on a
\* non-sentinel value that does not convert: it leaves the value out, and the
\* Quantity / Price Per Unit default is the median / mean of exactly the
\* non-sentinel values that convert.
C6_EstimatorSkipsUnconvertible ==
    /\ ~(pc = "defaults" /\ error = "ValueError")
    /\ (EstimatorDone /\ Len(quantities(raw_data)) > 0) =>
          defults.defult_quantity_median = median(quantities(raw_data)).val
    /\ (EstimatorDone /\ Len(prices_per_unit(raw_data)) > 0) =>
          defults.defult_price_per_unit_mean = mean(prices_per_unit(raw_data)).val

\* C7: Quantity is an integer in every cleaned row, imputed or parsed.
C7_QuantityIsInteger ==
    \A i \in CleanedSoFar : cleaned_rows[i]["Quantity"].den = 1

\* C8 as claimed: in every cleaned row Item, Payment Method and Location are
\* not sentinels, also when the raw column holds only sentinels.
Categoricals == {"Item", "Payment Method", "Location"}

C8_CategoricalsNeverSentinel ==
    \A i \in CleanedSoFar : \A c \in Categoricals : ~IsSentinel(cleaned_rows[i][c])

\* C8 amended: in every cleaned row Item, Payment Method and Location are
\* not sentinels when the raw column holds at least one non-sentinel value;
\* when the raw column holds only sentinels, only the imperative variant
\* produces cleaned rows and the field is the fallback "UNKNOWN" in each.
C8_CategoricalsImputed ==
    \A i \in CleanedSoFar : \A c \in Categoricals :
        IF AllSentinel(raw_data, c)
        THEN variant = "imperative" /\ cleaned_rows[i][c] = UNKNOWN
        ELSE ~IsSentinel(cleaned_rows[i][c])

\* a sentinel Item was replaced by the mode of the column
C8_Witness ==
    \E i \in CleanedSoFar :
        /\ IsSentinel(raw_data[i]["Item"])
        /\ ~IsSentinel(cleaned_rows[i]["Item"])
        /\ \E j \in 1..Len(raw_data) : cleaned_rows[i]["Item"] = raw_data[j]["Item"]

\* C9: the two variants perform the same transformation: on every non-empty
\* raw dataset both abort or both complete the cleaning, and when they complete
\* they have the same six defaults, the same cleaned rows and the same
\* aggregate for Coffee.
FunctionalCleans(data) ==
    /\ functional_defults(data).err = ""
    /\ \A i \in 1..Len(data) : clean_row(data[i], functional_defults(data).val).err = ""

FunctionalRows(data) ==
    [i \in 1..Len(data) |-> clean_row(data[i], functional_defults(data).val).val]

ImperativeCleans(data) ==
    \A i \in 1..Len(data) : cleaned_row(data[i], compute_column_stats(data)).err = ""

ImperativeRows(data) ==
    [i \in 1..Len(data) |-> cleaned_row(data[i], compute_column_stats(data)).val]

C9_VariantsAgree ==
    /\ (variant = "functional" /\ error # "" /\ pc \in {"defaults", "clean"}
            /\ Len(raw_data) > 0)
          => ~ImperativeCleans(raw_data)
    /\ (variant = "imperative" /\ error # "" /\ pc = "clean")
          => ~FunctionalCleans(raw_data)
    /\ (variant = "functional" /\ pc \in {"aggregate", "report", "save", "done"}) =>
          /\ ImperativeCleans(raw_data)
          /\ defults = compute_column_stats(raw_data)
          /\ cleaned_data = ImperativeRows(raw_data)
          /\ pc # "aggregate" =>
                total_spent_coffee =
                    get_aggregate_total_spent(ImperativeRows(raw_data), Coffee, "Corrected Total")
    /\ (variant = "imperative" /\ Cleaned) =>
          /\ FunctionalCleans(raw_data)
          /\ defults = functional_defults(raw_data).val
          /\ cleaned_data = FunctionalRows(raw_data)
          /\ pc # "aggregate" =>
                total_spent_coffee =
                    get_aggregate_by_coloumn_for_item(FunctionalRows(raw_data), Coffee,
                                                      "Corrected Total")

\* C10: no report of either variant ends the run with an exception, also
\* when the cleaned row set holds a single row.
C10_ReportsNeverFault ==
    ~(pc = "report" /\ error # "")

\* C11: the categorical report prints the mode of its column over all
\* cleaned rows when exactly one value has the highest frequency, and prints
\* "Multiple found" when two or more values tie for the highest frequency.
Frequency(values, v) == Cardinality({i \in 1..Len(values) : values[i] = v})

MostFrequent(values) ==
    {values[i] : i \in {k \in 1..Len(values) :
        \A j \in 1..Len(values) :
            Frequency(values, values[j]) <= Frequency(values, values[k])}}

\* the column of the categorical report that returned last, and its last line
LastReportedColumn ==
    [i \in 1..Len(cleaned_data) |-> cleaned_data[i][CategoricalReports[rep - 4]]]

C11_ModeOrMultipleFound ==
    (pc \in {"report", "save"} /\ error = "" /\ rep >= 5) =>
        LET winners == MostFrequent(LastReportedColumn)
            last == console[Len(console)]
        IN  /\ Cardinality(winners) = 1 =>
                  last.tag = "Mode" /\ last.text \in winners
            /\ Cardinality(winners) > 1 => last.tag = "Multiple found"

====
